---- MODULE Spec2Model ----
(***************************************************************************)
(* A model of dohres (src/lib.rs): an NSS module that resolves host names  *)
(* to IPv4 addresses with one DNS-over-HTTPS query and then chases CNAME   *)
(* records through the answer section of the response.                     *)
(***************************************************************************)
EXTENDS Integers, Sequences, FiniteSets, TLC

\* ------------------------------------------------------------- constants

NSS_STATUS_TRYAGAIN == -2
NSS_STATUS_UNAVAIL == -1
NSS_STATUS_NOTFOUND == 0
NSS_STATUS_SUCCESS == 1

HOST_NOT_FOUND == 1
TRY_AGAIN == 2
NO_RECOVERY == 3
NO_DATA == 4
NETDB_INTERNAL == -1
NETDB_SUCCESS == 0

\* libc::ENOENT and libc::ERANGE on Linux
ENOENT == 2
ERANGE == 34

\* libc::AF_INET and libc::AF_INET6 on Linux
AF_INET == 2
AF_INET6 == 10

\* mem::size_of::<*const c_char>() and mem::size_of::<[gaih_addrtuple; 1]>()
\* on a 64-bit target
ptr_size == 8
gaih_size == 40

\* ---------------------------------------------------------------- bounds

\* longest answer section of a response
MaxAns == 3

\* longest host name text of the calls that only normalise
MaxNameLen == 3

\* longest answer section of the calls that run side by side
MaxConcAns == 2

\* ----------------------------------------------------------------- names

\* A trust_dns Name: its labels and whether it is root-terminated.
MkName(ls, fq) == [labels |-> ls, fqdn |-> fq]

\* Name::root()
RootName == MkName(<<>>, TRUE)

\* The single-label absolute name "c."
Fqdn(c) == MkName(<< <<c>> >>, TRUE)

\* The raw host names a caller passes: "a", "a.", and the malformed "a..".
RawNames == { <<"a">>, <<"a", ".">>, <<"a", ".", ".">> }

\* The scan of Name::from_str over the text s from position i: ls are the
\* labels read so far and cur the label being read. A dot ends a label; an
\* empty label is an error, except in the root name "."; a text that ends
\* with a dot is fully qualified.
RECURSIVE FromStrScan(_, _, _, _)
FromStrScan(s, i, ls, cur) ==
    IF i > Len(s)
    THEN IF cur = <<>>
         THEN [ok |-> TRUE, name |-> MkName(ls, Len(s) > 0)]
         ELSE [ok |-> TRUE, name |-> MkName(Append(ls, cur), FALSE)]
    ELSE IF s[i] = "."
         THEN IF cur = <<>> /\ ~(Len(s) = 1)
              THEN [ok |-> FALSE, name |-> RootName]
              ELSE FromStrScan(s, i + 1, IF cur = <<>> THEN ls ELSE Append(ls, cur), <<>>)
         ELSE FromStrScan(s, i + 1, ls, Append(cur, s[i]))

\* A mutant of Name::from_str that accepts empty labels.
RECURSIVE FromStrLenientScan(_, _, _, _)
FromStrLenientScan(s, i, ls, cur) ==
    IF i > Len(s)
    THEN IF cur = <<>>
         THEN [ok |-> TRUE, name |-> MkName(ls, Len(s) > 0)]
         ELSE [ok |-> TRUE, name |-> MkName(Append(ls, cur), FALSE)]
    ELSE IF s[i] = "."
         THEN FromStrLenientScan(s, i + 1, IF cur = <<>> THEN ls ELSE Append(ls, cur), <<>>)
         ELSE FromStrLenientScan(s, i + 1, ls, Append(cur, s[i]))

FromStrLenient(s) == FromStrLenientScan(s, 1, <<>>, <<>>)

\* Name::from_str(name): Ok(name) or Err
FromStr(s) == FromStrScan(s, 1, <<>>, <<>>)

\* A mutant of append_name that adds the root as an empty label and leaves
\* the name relative.
AppendRootLabel(n) == MkName(Append(n.labels, <<>>), n.fqdn)

\* dns_name.append_name(&Name::root())
AppendRoot(n) == MkName(n.labels, TRUE)

\* if !dns_name.is_fqdn() { dns_name = dns_name.append_name(&Name::root()) }
Normalize(n) == IF n.fqdn THEN n ELSE AppendRoot(n)

\* --------------------------------------------------------------- records

\* The owner names and addresses the answer records are drawn from.
Owners == { Fqdn("a"), Fqdn("b"), Fqdn("c") }

Ips == { <<10, 0, 0, 1>>, <<10, 0, 0, 2>> }

NoAddr == <<0, 0, 0, 0>>

\* A record of the answer section: its owner, its type and its data (the
\* alias target of a CNAME, the address of an A record).
ARecord(n, ip) == [name |-> n, rr_type |-> "A", cname |-> RootName, addr |-> ip]

CnameRecord(n, t) == [name |-> n, rr_type |-> "CNAME", cname |-> t, addr |-> NoAddr]

OtherRecord(n) == [name |-> n, rr_type |-> "TXT", cname |-> RootName, addr |-> NoAddr]

Records ==
    { ARecord(n, ip) : n \in Owners, ip \in Ips }
        \cup { CnameRecord(n, t) : n \in Owners, t \in Owners }
        \cup { OtherRecord(n) : n \in Owners }

\* Every answer section of at most MaxAns records.
Answers == UNION { [1..k -> Records] : k \in 0..MaxAns }

ResponseCodes == { "NoError", "NXDomain", "ServFail", "Refused" }

\* What resolve() and resp.messages().nth(0) can give: a transport error, a
\* response without a message, or a message.
NoResponse == [kind |-> "none", rcode |-> "NoError", ans |-> <<>>]

Responses ==
    { [kind |-> "err", rcode |-> "NoError", ans |-> <<>>],
      [kind |-> "nomsg", rcode |-> "NoError", ans |-> <<>>] }
        \cup { [kind |-> "msg", rcode |-> rc, ans |-> a] : rc \in ResponseCodes, a \in Answers }

\* ----------------------------------------------------------------- state

VARIABLES
    pc,          \* where the call is
    name,        \* the host name passed in
    errno,       \* *errnop
    h_errno,     \* *h_errnop
    dns_name,    \* the parsed, normalised name
    queries,     \* calls of client.query made by this call
    resp,        \* what resolve() returned
    looking_for, \* the chase's current target
    addrs,       \* the addresses collected
    cnames,      \* the names whose alias was followed
    idx,         \* the position of ans.iter()
    inspected,   \* the positions of the answer records read so far
    ret,         \* the value returned by retrieve_addrs
    entry,       \* the function the caller entered
    af,          \* the address family passed to _nss_doh_gethostbyname2_r
    buflen,      \* the size of the caller's buffer
    buf,         \* the bytes written into the caller's buffer, by offset
    result_buf,  \* *result_buf, the caller's hostent
    pat,         \* **pat, the caller's first gaih_addrtuple
    nss_status,  \* the status the entry point returned
    other,       \* the locals and outputs of a second call, while it waits
    running      \* which of two calls the variables above belong to

nssvars == <<entry, af, buflen, buf, result_buf, pat, nss_status>>

threadvars == <<other, running>>

vars == <<pc, name, errno, h_errno, dns_name, queries, resp, looking_for, addrs,
          cnames, idx, inspected, ret, nssvars, threadvars>>

\* (Option<Vec<Ipv4Addr>>, c_int)
None(status) == [some |-> FALSE, addrs |-> <<>>, status |-> status]

Some(a, status) == [some |-> TRUE, addrs |-> a, status |-> status]

NoRet == [some |-> FALSE, addrs |-> <<>>, status |-> NSS_STATUS_UNAVAIL]

\* A pointer into the caller's buffer, and the null pointer.
Ptr(off) == [base |-> "buf", off |-> off]

NullPtr == [base |-> "null", off |-> 0]

\* The hostent and the gaih_addrtuple the caller hands in.
CallerHostent ==
    [h_name |-> NullPtr, h_aliases |-> NullPtr, h_addr_list |-> NullPtr]

Zeros == <<0, 0, 0, 0>>

CallerTuple(family) ==
    [next |-> NullPtr, name |-> NullPtr, family |-> family, addr |-> Zeros,
     scopeid |-> 0]

\* The locals and outputs of a call that has not started.
Waiting(nm) ==
    [pc |-> "ra_start", name |-> nm, errno |-> ERANGE, h_errno |-> TRY_AGAIN,
     dns_name |-> RootName, queries |-> 0, resp |-> NoResponse,
     looking_for |-> RootName, addrs |-> <<>>, cnames |-> {}, idx |-> 0,
     inspected |-> {}, ret |-> NoRet]

\* The state of the caller's memory and of the locals before a call of the
\* host name nm, made on its own.
CallOf(nm) ==
    /\ name = nm
    /\ errno = ERANGE
    /\ h_errno = TRY_AGAIN
    /\ dns_name = RootName
    /\ queries = 0
    /\ resp = NoResponse
    /\ looking_for = RootName
    /\ addrs = <<>>
    /\ cnames = {}
    /\ idx = 0
    /\ inspected = {}
    /\ ret = NoRet
    /\ buf = <<>>
    /\ result_buf = CallerHostent
    /\ nss_status = NSS_STATUS_UNAVAIL
    /\ other = Waiting(nm)
    /\ running = 1

CallState == \E nm \in RawNames : CallOf(nm)

\* A call of retrieve_addrs.
Init ==
    /\ CallState
    /\ pc = "ra_start"
    /\ entry = "retrieve_addrs"
    /\ af = AF_INET
    /\ buflen = 0
    /\ pat = CallerTuple(AF_INET)

\* A return of retrieve_addrs.
Return(r) ==
    /\ ret' = r
    /\ pc' = IF entry = "retrieve_addrs" THEN "done" ELSE "nss_ret"

\* retrieve_addrs, lines 191-201: preset the error codes, parse and
\* normalise the name.
ParseName ==
    /\ pc = "ra_start"
    /\ errno' = ENOENT
    /\ h_errno' = NETDB_INTERNAL
    /\ LET p == FromStr(name) IN
         IF p.ok
         THEN /\ dns_name' = Normalize(p.name)
              /\ pc' = "ra_resolve"
              /\ ret' = ret
         ELSE /\ Return(None(NSS_STATUS_UNAVAIL))
              /\ dns_name' = dns_name
    /\ UNCHANGED <<name, queries, resp, looking_for, addrs, cnames, idx, inspected,
                   nssvars, threadvars>>

\* resolve() answers a query with a transport error: a mutant that asks again.
ResolveRetrying(R) ==
    /\ pc = "ra_resolve"
    /\ queries < 2
    /\ queries' = queries + 1
    /\ \E r \in R :
         /\ resp' = r
         /\ IF r.kind = "msg"
            THEN /\ errno' = 0
                 /\ h_errno' = NO_DATA
                 /\ pc' = "ra_classify"
                 /\ ret' = ret
            ELSE /\ IF queries' < 2
                    THEN pc' = "ra_resolve" /\ ret' = ret
                    ELSE Return(None(NSS_STATUS_UNAVAIL))
                 /\ UNCHANGED <<errno, h_errno>>
    /\ UNCHANGED <<name, dns_name, looking_for, addrs, cnames, idx, inspected,
                   nssvars, threadvars>>

\* retrieve_addrs, lines 202-214: the one query (resolve, lines 281-295), the
\* first message of the response, and the error codes of a response in hand.
ResolveFrom(R) ==
    /\ pc = "ra_resolve"
    /\ queries' = queries + 1
    /\ \E r \in R :
         /\ resp' = r
         /\ IF r.kind = "msg"
            THEN /\ errno' = 0
                 /\ h_errno' = NO_DATA
                 /\ pc' = "ra_classify"
                 /\ ret' = ret
            ELSE /\ Return(None(NSS_STATUS_UNAVAIL))
                 /\ UNCHANGED <<errno, h_errno>>
    /\ UNCHANGED <<name, dns_name, looking_for, addrs, cnames, idx, inspected,
                   nssvars, threadvars>>

Resolve == ResolveFrom(Responses)

\* A mutant of the match on the response code that lets NXDomain through.
ClassifyNxAsNoError(rcode) ==
    CASE rcode \in {"NoError", "NXDomain"} ->
            [continue |-> TRUE, h_errno |-> NO_DATA, status |-> NSS_STATUS_NOTFOUND]
      [] rcode = "ServFail" ->
            [continue |-> FALSE, h_errno |-> TRY_AGAIN, status |-> NSS_STATUS_TRYAGAIN]
      [] OTHER ->
            [continue |-> FALSE, h_errno |-> NO_RECOVERY, status |-> NSS_STATUS_UNAVAIL]

\* A mutant of the match on the response code that writes NO_RECOVERY for
\* ServFail too.
ClassifyServFailNoRecovery(rcode) ==
    CASE rcode = "NoError" ->
            [continue |-> TRUE, h_errno |-> NO_DATA, status |-> NSS_STATUS_NOTFOUND]
      [] rcode = "NXDomain" ->
            [continue |-> FALSE, h_errno |-> HOST_NOT_FOUND, status |-> NSS_STATUS_NOTFOUND]
      [] rcode = "ServFail" ->
            [continue |-> FALSE, h_errno |-> NO_RECOVERY, status |-> NSS_STATUS_TRYAGAIN]
      [] OTHER ->
            [continue |-> FALSE, h_errno |-> NO_RECOVERY, status |-> NSS_STATUS_UNAVAIL]

\* retrieve_addrs, lines 215-235: match msg.response_code(): whether the
\* chase runs, else the h_errno written and the status returned.
Classify(rcode) ==
    CASE rcode = "NoError" ->
            [continue |-> TRUE, h_errno |-> NO_DATA, status |-> NSS_STATUS_NOTFOUND]
      [] rcode = "NXDomain" ->
            [continue |-> FALSE, h_errno |-> HOST_NOT_FOUND, status |-> NSS_STATUS_NOTFOUND]
      [] rcode = "ServFail" ->
            [continue |-> FALSE, h_errno |-> TRY_AGAIN, status |-> NSS_STATUS_TRYAGAIN]
      [] OTHER ->
            [continue |-> FALSE, h_errno |-> NO_RECOVERY, status |-> NSS_STATUS_UNAVAIL]

\* retrieve_addrs, lines 215-238: classify the response code, then set up
\* the chase.
ClassifyResponse ==
    /\ pc = "ra_classify"
    /\ LET c == Classify(resp.rcode) IN
         IF c.continue
         THEN /\ looking_for' = dns_name
              /\ addrs' = <<>>
              /\ cnames' = {}
              /\ idx' = 1
              /\ pc' = "ra_for"
              /\ UNCHANGED <<h_errno, ret>>
         ELSE /\ h_errno' = c.h_errno
              /\ Return(None(c.status))
              /\ UNCHANGED <<looking_for, addrs, cnames, idx>>
    /\ UNCHANGED <<name, errno, dns_name, queries, resp, inspected,
                   nssvars, threadvars>>

\* line 241: record.name() == looking_for
Matches(record, target) == record.name = target

\* A mutant of the loop test that never sees a loop.
NoLoopSeen(seen, target) == FALSE

\* line 255: cnames.contains(looking_for)
LoopSeen(seen, target) == target \in seen

\* A mutant of the insertion that forgets the name.
InsertNothing(seen, target) == seen

\* line 247: cnames.insert(looking_for)
Insert(seen, target) == seen \cup {target}

\* A mutant of the push that puts the new address first.
PushAddrFront(a, record) == <<record.addr>> \o a

\* line 265: addrs.push(addr.clone())
PushAddr(a, record) == Append(a, record.addr)

\* lines 240-270: one turn of the for loop over ans.iter(), on the record
\* at idx.
ScanRecord ==
    /\ pc = "ra_for"
    /\ idx <= Len(resp.ans)
    /\ inspected' = inspected \cup {idx}
    /\ LET record == resp.ans[idx] IN
         IF Matches(record, looking_for) /\ record.rr_type = "CNAME"
         THEN IF addrs # <<>>
              THEN \* a CNAME and A records with the same name: break 'outer
                   /\ addrs' = <<>>
                   /\ pc' = "ra_end"
                   /\ UNCHANGED <<looking_for, cnames, idx>>
              ELSE /\ cnames' = Insert(cnames, looking_for)
                   /\ looking_for' = record.cname
                   /\ pc' = IF LoopSeen(cnames', record.cname)
                            THEN "ra_end"        \* CNAME loop: break 'outer
                            ELSE "ra_pass_end"   \* break
                   /\ UNCHANGED <<addrs, idx>>
         ELSE /\ addrs' = IF Matches(record, looking_for) /\ record.rr_type = "A"
                          THEN PushAddr(addrs, record)
                          ELSE addrs
              /\ idx' = idx + 1
              /\ UNCHANGED <<pc, looking_for, cnames>>
    /\ UNCHANGED <<name, errno, h_errno, dns_name, queries, resp, ret,
                   nssvars, threadvars>>

\* line 240: ans.iter() has no record left.
ForEnd ==
    /\ pc = "ra_for"
    /\ idx > Len(resp.ans)
    /\ pc' = "ra_pass_end"
    /\ UNCHANGED <<name, errno, h_errno, dns_name, queries, resp, looking_for,
                   addrs, cnames, idx, inspected, ret,
                   nssvars, threadvars>>

\* lines 271-274: after the for loop, leave the outer loop with addresses
\* in hand, else scan again from the first record.
PassEnd ==
    /\ pc = "ra_pass_end"
    /\ IF addrs # <<>>
       THEN pc' = "ra_end" /\ idx' = idx
       ELSE pc' = "ra_for" /\ idx' = 1
    /\ UNCHANGED <<name, errno, h_errno, dns_name, queries, resp, looking_for,
                   addrs, cnames, inspected, ret,
                   nssvars, threadvars>>

\* A mutant of the final test that returns whatever was collected.
ChaseResultUnchecked(a) == Some(a, NSS_STATUS_SUCCESS)

\* lines 275-278: the value returned after the chase.
ChaseResult(a) ==
    IF a = <<>> THEN None(NSS_STATUS_NOTFOUND) ELSE Some(a, NSS_STATUS_SUCCESS)

ChaseReturn ==
    /\ pc = "ra_end"
    /\ Return(ChaseResult(addrs))
    /\ UNCHANGED <<name, errno, h_errno, dns_name, queries, resp, looking_for,
                   addrs, cnames, idx, inspected,
                   nssvars, threadvars>>

Next ==
    \/ ParseName
    \/ Resolve
    \/ ClassifyResponse
    \/ ScanRecord
    \/ ForEnd
    \/ PassEnd
    \/ ChaseReturn

Spec == Init /\ [][Next]_vars

\* One thread runs the call: a step that can be taken is taken.
FairSpec == Spec /\ WF_vars(Next)

\* ----------------------------------------------------- the entry points

\* The buffer sizes a caller passes.
BufLens == {2, 22, 42, 128}

\* The answer sections of the calls through the entry points.
NssOwners == { Fqdn("a"), Fqdn("b") }

NssRecords ==
    { ARecord(n, ip) : n \in NssOwners, ip \in Ips }
        \cup { CnameRecord(n, t) : n \in NssOwners, t \in NssOwners }

NssAnswers == UNION { [1..k -> NssRecords] : k \in 0..MaxAns }

NssResponses ==
    { [kind |-> "err", rcode |-> "NoError", ans |-> <<>>],
      [kind |-> "nomsg", rcode |-> "NoError", ans |-> <<>>] }
        \cup { [kind |-> "msg", rcode |-> rc, ans |-> a] :
                 rc \in ResponseCodes, a \in NssAnswers }

\* A call of one of the three entry points. af is the family parameter of
\* _nss_doh_gethostbyname2_r: the caller's argument, or what the parameter
\* holds before _nss_doh_gethostbyname_r passes AF_INET.
NssInit ==
    /\ CallState
    /\ pc = "nss_entry"
    /\ entry \in {"gethostbyname_r", "gethostbyname2_r", "gethostbyname4_r"}
    /\ buflen \in BufLens
    /\ af \in IF entry = "gethostbyname4_r" THEN {AF_INET} ELSE {AF_INET, AF_INET6}
    /\ pat \in IF entry = "gethostbyname4_r"
               THEN {CallerTuple(AF_INET), CallerTuple(AF_INET6)}
               ELSE {CallerTuple(AF_INET)}

\* The bytes of memory: of a pointer, of a 32-bit integer, an address
\* octet, a character of the name and its terminating NUL.
PtrBytes(p) ==
    [k \in 1..ptr_size |->
        [tag |-> IF p = NullPtr THEN "null" ELSE "ptr", n |-> p.off, k |-> k, c |-> ""]]

IntBytes(v) == [k \in 1..4 |-> [tag |-> "i32", n |-> v, k |-> k, c |-> ""]]

OctetBytes(ip) == [k \in 1..4 |-> [tag |-> "u8", n |-> ip[k], k |-> 0, c |-> ""]]

CStrBytes(s) ==
    [k \in 1..Len(s) + 1 |->
        IF k <= Len(s)
        THEN [tag |-> "char", n |-> 0, k |-> 0, c |-> s[k]]
        ELSE [tag |-> "nul", n |-> 0, k |-> 0, c |-> ""]]

\* ptr::write / ptr::copy of bytes to buf.offset(off)
Write(b, off, bytes) ==
    [o \in DOMAIN b \cup off..(off + Len(bytes) - 1) |->
        IF o >= off /\ o < off + Len(bytes) THEN bytes[o - off + 1] ELSE b[o]]

\* the bytes of a gaih_addrtuple (repr(C)): next, name, family, addr, scopeid
TupleBytes(t) ==
    PtrBytes(t.next) \o PtrBytes(t.name) \o IntBytes(t.family)
        \o IntBytes(t.addr[1]) \o IntBytes(t.addr[2]) \o IntBytes(t.addr[3])
        \o IntBytes(t.addr[4]) \o IntBytes(t.scopeid)

\* A mutant of the family test of _nss_doh_gethostbyname2_r that rejects
\* nothing.
RejectedNever(family) == FALSE

\* lines 58 and 120: the address family is AF_INET6
Rejected(family) == family = AF_INET6

\* _nss_doh_gethostbyname_r, lines 37-46: the call of
\* _nss_doh_gethostbyname2_r with AF_INET.
Gethostbyname ==
    /\ pc = "nss_entry"
    /\ entry = "gethostbyname_r"
    /\ af' = AF_INET
    /\ pc' = "nss2_entry"
    /\ UNCHANGED <<name, errno, h_errno, dns_name, queries, resp, looking_for,
                   addrs, cnames, idx, inspected, ret, entry, buflen, buf,
                   result_buf, pat, nss_status, threadvars>>

\* _nss_doh_gethostbyname2_r, lines 58-62: reject AF_INET6, else call
\* retrieve_addrs.
Gethostbyname2 ==
    /\ \/ pc = "nss_entry" /\ entry = "gethostbyname2_r"
       \/ pc = "nss2_entry"
    /\ IF Rejected(af)
       THEN /\ nss_status' = NSS_STATUS_NOTFOUND
            /\ pc' = "done"
       ELSE /\ pc' = "ra_start"
            /\ UNCHANGED nss_status
    /\ UNCHANGED <<name, errno, h_errno, dns_name, queries, resp, looking_for,
                   addrs, cnames, idx, inspected, ret, entry, af, buflen, buf,
                   result_buf, pat, threadvars>>

RECURSIVE PackAddrs(_, _, _, _)
\* A mutant of the loop that stores the addresses, in which pointer slot ix
\* points past address ix.
PackAddrsSlotAhead(b, as, ix, addr_data_offset) ==
    IF ix >= Len(as)
    THEN b
    ELSE PackAddrs(
            Write(Write(b, addr_data_offset, OctetBytes(as[ix + 1])),
                  ix * ptr_size, PtrBytes(Ptr(addr_data_offset + 4))),
            as, ix + 1, addr_data_offset + 4)

\* lines 89-97: the loop that stores the addresses and the pointers to them
PackAddrs(b, as, ix, addr_data_offset) ==
    IF ix >= Len(as)
    THEN b
    ELSE PackAddrs(
            Write(Write(b, addr_data_offset, OctetBytes(as[ix + 1])),
                  ix * ptr_size, PtrBytes(Ptr(addr_data_offset))),
            as, ix + 1, addr_data_offset + 4)

\* A mutant of the size that leaves out the NUL after the name.
DataSize2NoNul(n, len) == n * (ptr_size + 4) + ptr_size + len

\* lines 79-80: data_size, for n addresses and a name of len bytes
DataSize2(n, len) == n * (ptr_size + 4) + ptr_size + len + 1

\* _nss_doh_gethostbyname2_r, lines 62-107: return the status of a failed
\* retrieve_addrs, else pack the addresses and the name into buf.
Gethostbyname2Pack ==
    /\ pc = "nss_ret"
    /\ entry \in {"gethostbyname_r", "gethostbyname2_r"}
    /\ pc' = "done"
    /\ IF ~ret.some
       THEN /\ nss_status' = ret.status
            /\ UNCHANGED <<errno, h_errno, buf, result_buf>>
       ELSE LET n == Len(ret.addrs)
                data_size == DataSize2(n, Len(name))
                name_offset == (n + 1) * ptr_size + 4 * n
                null_slot == n * ptr_size
            IN  IF data_size > buflen
                THEN /\ errno' = ERANGE
                     /\ h_errno' = TRY_AGAIN
                     /\ nss_status' = NSS_STATUS_TRYAGAIN
                     /\ UNCHANGED <<buf, result_buf>>
                ELSE /\ buf' = Write(
                                 Write(PackAddrs(buf, ret.addrs, 0, (n + 1) * ptr_size),
                                       null_slot, PtrBytes(NullPtr)),
                                 name_offset, CStrBytes(name))
                     /\ result_buf' = [h_name |-> Ptr(name_offset),
                                       h_aliases |-> Ptr(null_slot),
                                       h_addr_list |-> Ptr(0)]
                     /\ h_errno' = NETDB_SUCCESS
                     /\ nss_status' = NSS_STATUS_SUCCESS
                     /\ UNCHANGED errno
    /\ UNCHANGED <<name, dns_name, queries, resp, looking_for, addrs, cnames, idx,
                   inspected, ret, entry, af, buflen, pat, threadvars>>

\* _nss_doh_gethostbyname4_r, lines 120-124: reject a first tuple of family
\* AF_INET6, else call retrieve_addrs.
Gethostbyname4 ==
    /\ pc = "nss_entry"
    /\ entry = "gethostbyname4_r"
    /\ IF Rejected(pat.family)
       THEN /\ nss_status' = NSS_STATUS_NOTFOUND
            /\ pc' = "done"
       ELSE /\ pc' = "ra_start"
            /\ UNCHANGED nss_status
    /\ UNCHANGED <<name, errno, h_errno, dns_name, queries, resp, looking_for,
                   addrs, cnames, idx, inspected, ret, entry, af, buflen, buf,
                   result_buf, pat, threadvars>>

\* A mutant of the tuple of address ix whose next points one tuple too far.
ElemNextAhead(as, ix, name_offset, copied) ==
    [next |-> IF ix < Len(as) - 1 THEN Ptr((ix + 1) * gaih_size) ELSE NullPtr,
     name |-> IF ix = 0 THEN Ptr(name_offset) ELSE NullPtr,
     family |-> AF_INET,
     addr |-> IF copied THEN <<as[ix + 1], 0, 0, 0>> ELSE Zeros,
     scopeid |-> 0]

\* lines 155-173: the tuple of address ix. addr_array is not declared mut and
\* is written through a cast pointer: the build may keep the copied address
\* or the zeros (copied tells which).
Elem(as, ix, name_offset, copied) ==
    [next |-> IF ix < Len(as) - 1 THEN Ptr(ix * gaih_size) ELSE NullPtr,
     name |-> IF ix = 0 THEN Ptr(name_offset) ELSE NullPtr,
     family |-> AF_INET,
     addr |-> IF copied THEN <<as[ix + 1], 0, 0, 0>> ELSE Zeros,
     scopeid |-> 0]

\* lines 153-182: the tuples after the first one, stored in buf
RECURSIVE PackTuples(_, _, _, _, _, _)
PackTuples(b, as, ix, gaih_array_offset, name_offset, copied) ==
    IF ix >= Len(as)
    THEN b
    ELSE PackTuples(
            Write(b, gaih_array_offset, TupleBytes(Elem(as, ix, name_offset, copied))),
            as, ix + 1, gaih_array_offset + gaih_size, name_offset, copied)

\* A mutant of the packing of _nss_doh_gethostbyname4_r that stores the first
\* tuple in **pat before it tests the size.
Gethostbyname4PackEager ==
    /\ pc = "nss_ret"
    /\ entry = "gethostbyname4_r"
    /\ pc' = "done"
    /\ IF ~ret.some
       THEN /\ nss_status' = ret.status
            /\ UNCHANGED <<errno, h_errno, buf, pat>>
       ELSE LET n == Len(ret.addrs)
                name_offset == (n - 1) * gaih_size
                data_size == name_offset + Len(name) + 1
            IN  \E copied \in BOOLEAN :
                  /\ pat' = Elem(ret.addrs, 0, name_offset, copied)
                  /\ IF data_size > buflen
                     THEN /\ errno' = ERANGE
                          /\ h_errno' = TRY_AGAIN
                          /\ nss_status' = NSS_STATUS_TRYAGAIN
                          /\ UNCHANGED buf
                     ELSE /\ buf' = Write(PackTuples(buf, ret.addrs, 1, 0, name_offset, copied),
                                          name_offset, CStrBytes(name))
                          /\ h_errno' = NETDB_SUCCESS
                          /\ nss_status' = NSS_STATUS_SUCCESS
                          /\ UNCHANGED errno
    /\ UNCHANGED <<name, dns_name, queries, resp, looking_for, addrs, cnames, idx,
                   inspected, ret, entry, af, buflen, result_buf, threadvars>>

\* _nss_doh_gethostbyname4_r, lines 124-188: return the status of a failed
\* retrieve_addrs, else pack the tuples and the name into *pat and buf.
Gethostbyname4Pack ==
    /\ pc = "nss_ret"
    /\ entry = "gethostbyname4_r"
    /\ pc' = "done"
    /\ IF ~ret.some
       THEN /\ nss_status' = ret.status
            /\ UNCHANGED <<errno, h_errno, buf, pat>>
       ELSE LET n == Len(ret.addrs)
                name_offset == (n - 1) * gaih_size
                data_size == name_offset + Len(name) + 1
            IN  IF data_size > buflen
                THEN /\ errno' = ERANGE
                     /\ h_errno' = TRY_AGAIN
                     /\ nss_status' = NSS_STATUS_TRYAGAIN
                     /\ UNCHANGED <<buf, pat>>
                ELSE \E copied \in BOOLEAN :
                     /\ pat' = Elem(ret.addrs, 0, name_offset, copied)
                     /\ buf' = Write(PackTuples(buf, ret.addrs, 1, 0, name_offset, copied),
                                     name_offset, CStrBytes(name))
                     /\ h_errno' = NETDB_SUCCESS
                     /\ nss_status' = NSS_STATUS_SUCCESS
                     /\ UNCHANGED errno
    /\ UNCHANGED <<name, dns_name, queries, resp, looking_for, addrs, cnames, idx,
                   inspected, ret, entry, af, buflen, result_buf, threadvars>>

NssResolve == ResolveFrom(NssResponses)

NssNext ==
    \/ Gethostbyname
    \/ Gethostbyname2
    \/ Gethostbyname4
    \/ ParseName
    \/ NssResolve
    \/ ClassifyResponse
    \/ ScanRecord
    \/ ForEnd
    \/ PassEnd
    \/ ChaseReturn
    \/ Gethostbyname2Pack
    \/ Gethostbyname4Pack

NssSpec == NssInit /\ [][NssNext]_vars

\* ---------------------------------------------------- the call as a value

\* lines 239-274 as a function of the answer section: the scan of record i
\* for target, with the names followed and the addresses collected so far.
\* A pass that runs off the end with no address leaves the loop where it
\* was, for ever (spins).
RECURSIVE Chase(_, _, _, _, _)
Chase(a, target, seen, i, acc) ==
    IF i > Len(a)
    THEN [spins |-> acc = <<>>, addrs |-> acc]
    ELSE IF Matches(a[i], target) /\ a[i].rr_type = "CNAME"
         THEN IF acc # <<>> \/ LoopSeen(seen \cup {target}, a[i].cname)
              THEN [spins |-> FALSE, addrs |-> <<>>]
              ELSE Chase(a, a[i].cname, seen \cup {target}, 1, <<>>)
         ELSE Chase(a, target, seen, i + 1,
                    IF Matches(a[i], target) /\ a[i].rr_type = "A"
                    THEN PushAddr(acc, a[i])
                    ELSE acc)

\* retrieve_addrs, lines 190-279, as a function of the host name and of
\* what resolve() gives: whether the call returns, and what.
RetrieveAddrs(nm, r) ==
    LET p == FromStr(nm) IN
        IF ~p.ok \/ r.kind # "msg"
        THEN [spins |-> FALSE, ret |-> None(NSS_STATUS_UNAVAIL)]
        ELSE IF ~Classify(r.rcode).continue
        THEN [spins |-> FALSE, ret |-> None(Classify(r.rcode).status)]
        ELSE LET c == Chase(r.ans, Normalize(p.name), {}, 1, <<>>)
             IN  [spins |-> c.spins, ret |-> ChaseResult(c.addrs)]

\* ------------------------------------------------ two calls side by side

\* The answer sections of the calls that run side by side.
ConcRecords ==
    { ARecord(Fqdn("a"), <<10, 0, 0, 1>>), ARecord(Fqdn("b"), <<10, 0, 0, 2>>),
      CnameRecord(Fqdn("a"), Fqdn("b")), CnameRecord(Fqdn("b"), Fqdn("a")) }

ConcAnswers == UNION { [1..k -> ConcRecords] : k \in 0..MaxConcAns }

ConcResponses ==
    { [kind |-> "err", rcode |-> "NoError", ans |-> <<>>],
      [kind |-> "msg", rcode |-> "ServFail", ans |-> <<>>] }
        \cup { [kind |-> "msg", rcode |-> "NoError", ans |-> a] : a \in ConcAnswers }

\* Two calls of retrieve_addrs, each with its own errnop and h_errnop: the
\* first holds the variables, the second waits in other.
ConcInit ==
    /\ \E nm \in RawNames : CallOf(nm)
    /\ pc = "ra_start"
    /\ entry = "retrieve_addrs"
    /\ af = AF_INET
    /\ buflen = 0
    /\ pat = CallerTuple(AF_INET)
    /\ other \in { Waiting(nm) : nm \in RawNames }

\* The locals and outputs of the call that holds the variables.
Mine ==
    [pc |-> pc, name |-> name, errno |-> errno, h_errno |-> h_errno,
     dns_name |-> dns_name, queries |-> queries, resp |-> resp,
     looking_for |-> looking_for, addrs |-> addrs, cnames |-> cnames,
     idx |-> idx, inspected |-> inspected, ret |-> ret]

\* A mutant of the switch in which cnames is one set for both calls.
SwitchSharingCnames ==
    /\ other.pc # "done"
    /\ running' = 3 - running
    /\ other' = Mine
    /\ pc' = other.pc
    /\ name' = other.name
    /\ errno' = other.errno
    /\ h_errno' = other.h_errno
    /\ dns_name' = other.dns_name
    /\ queries' = other.queries
    /\ resp' = other.resp
    /\ looking_for' = other.looking_for
    /\ addrs' = other.addrs
    /\ cnames' = cnames
    /\ idx' = other.idx
    /\ inspected' = other.inspected
    /\ ret' = other.ret
    /\ UNCHANGED nssvars

\* The thread of one call is suspended and that of the other runs on: every
\* variable of retrieve_addrs is a local of the call or behind a pointer the
\* caller passed (lines 190-238), so each call finds its own as it left them.
Switch ==
    /\ other.pc # "done"
    /\ running' = 3 - running
    /\ other' = Mine
    /\ pc' = other.pc
    /\ name' = other.name
    /\ errno' = other.errno
    /\ h_errno' = other.h_errno
    /\ dns_name' = other.dns_name
    /\ queries' = other.queries
    /\ resp' = other.resp
    /\ looking_for' = other.looking_for
    /\ addrs' = other.addrs
    /\ cnames' = other.cnames
    /\ idx' = other.idx
    /\ inspected' = other.inspected
    /\ ret' = other.ret
    /\ UNCHANGED nssvars

ConcResolve == ResolveFrom(ConcResponses)

ConcNext ==
    \/ Switch
    \/ ParseName
    \/ ConcResolve
    \/ ClassifyResponse
    \/ ScanRecord
    \/ ForEnd
    \/ PassEnd
    \/ ChaseReturn

ConcSpec == ConcInit /\ [][ConcNext]_vars

\* ------------------------------------------------- normalisation alone

\* Every host name text of at most MaxNameLen characters.
NameChars == {"a", "b", "."}

NameTexts == UNION { [1..k -> NameChars] : k \in 0..MaxNameLen }

\* The responses of the calls that only normalise.
NormResponses ==
    { [kind |-> "err", rcode |-> "NoError", ans |-> <<>>],
      [kind |-> "msg", rcode |-> "NoError", ans |-> <<>>],
      [kind |-> "msg", rcode |-> "NoError",
       ans |-> <<ARecord(Fqdn("a"), <<10, 0, 0, 1>>)>>],
      [kind |-> "msg", rcode |-> "NoError",
       ans |-> <<ARecord(Fqdn("a"), <<10, 0, 0, 1>>),
                 CnameRecord(Fqdn("a"), Fqdn("b"))>>] }

\* A call of retrieve_addrs on any host name text.
NormInit ==
    /\ \E nm \in NameTexts : CallOf(nm)
    /\ pc = "ra_start"
    /\ entry = "retrieve_addrs"
    /\ af = AF_INET
    /\ buflen = 0
    /\ pat = CallerTuple(AF_INET)

\* lines 199-201 applied once more to the normalised name
NormalizeAgain ==
    /\ pc = "ra_resolve"
    /\ dns_name' = Normalize(dns_name)
    /\ pc' = "normalized_again"
    /\ UNCHANGED <<name, errno, h_errno, queries, resp, looking_for, addrs, cnames,
                   idx, inspected, ret, nssvars, threadvars>>

NormResolve == ResolveFrom(NormResponses)

NormNext ==
    \/ ParseName
    \/ NormalizeAgain
    \/ NormResolve
    \/ ClassifyResponse
    \/ ScanRecord
    \/ ForEnd
    \/ PassEnd
    \/ ChaseReturn

NormSpec == NormInit /\ [][NormNext]_vars

\* ------------------------------------------------------------ the claims

\* The positions of the records of answer section a owned by n, and those
\* of them that are aliases and addresses.
OwnedBy(a, n) == { i \in 1..Len(a) : a[i].name = n }

AliasesOf(a, n) == { i \in OwnedBy(a, n) : a[i].rr_type = "CNAME" }

AddressesOf(a, n) == { i \in OwnedBy(a, n) : a[i].rr_type = "A" }

\* The target of the first alias record of n in a.
FirstAlias(a, n) ==
    a[CHOOSE i \in AliasesOf(a, n) : \A j \in AliasesOf(a, n) : i <= j].cname

\* The addresses of the address records of n in a, in the order of a.
AddressList(a, n) ==
    LET sel == SelectSeq(a, LAMBDA r : r.name = n /\ r.rr_type = "A")
    IN  [i \in 1..Len(sel) |-> sel[i].addr]

\* The elements of a sequence.
Range(q) == { q[k] : k \in 1..Len(q) }

\* A no-error response is in hand.
NoErrorResponse == resp.kind = "msg" /\ resp.rcode = "NoError"

\* The host name has an empty label (and is not the root name ".").
Malformed(s) ==
    /\ Len(s) > 1
    /\ \E i \in 1..Len(s) : s[i] = "." /\ (i = 1 \/ s[i - 1] = ".")

\* C1: for every query name and every answer section of a no-error response
\* the chase ends: once the scan of the records has begun, the call returns.
ChaseTerminates == [](pc = "ra_for" => <>(pc = "done"))

\* C2: a returned address list is never empty and comes with SUCCESS; every
\* other status (NOTFOUND, TRYAGAIN, UNAVAIL) comes without a list.
SuccessHasAddresses ==
    pc = "done" =>
        /\ ret.status \in {NSS_STATUS_SUCCESS, NSS_STATUS_NOTFOUND,
                           NSS_STATUS_TRYAGAIN, NSS_STATUS_UNAVAIL}
        /\ ret.status = NSS_STATUS_SUCCESS => ret.some /\ ret.addrs # <<>>
        /\ ret.status # NSS_STATUS_SUCCESS => ~ret.some

\* C2's case: the call returned after a conflict cleared the addresses
\* collected for the query name.
ConflictClearedReturn ==
    /\ pc = "done"
    /\ NoErrorResponse
    /\ ret.status = NSS_STATUS_NOTFOUND
    /\ \E i, j \in 1..Len(resp.ans) :
         /\ i < j
         /\ resp.ans[i] \in { ARecord(dns_name, ip) : ip \in Ips }
         /\ resp.ans[j].name = dns_name /\ resp.ans[j].rr_type = "CNAME"

\* C3: when a name the chase went through (the query name or a name reached
\* by an alias) owns both an alias and an address record, the outcome is
\* NotFound, in whatever order the two records are.
ConflictIsNotFound ==
    ( /\ pc = "done"
      /\ NoErrorResponse
      /\ \E n \in cnames \cup {looking_for} :
           AliasesOf(resp.ans, n) # {} /\ AddressesOf(resp.ans, n) # {} )
        => ret = None(NSS_STATUS_NOTFOUND)

\* Following first aliases from n (having followed those of seen): the walk
\* comes back to a name whose alias was followed already, or stops.
RECURSIVE AliasWalk(_, _, _)
AliasWalk(a, n, seen) ==
    IF n \in seen
    THEN [loop |-> TRUE, at |-> n, seen |-> seen]
    ELSE IF AliasesOf(a, n) = {}
         THEN [loop |-> FALSE, at |-> n, seen |-> seen]
         ELSE AliasWalk(a, FirstAlias(a, n), seen \cup {n})

\* The names on the cycle through n.
RECURSIVE CycleFrom(_, _, _)
CycleFrom(a, n, acc) ==
    IF n \in acc THEN acc ELSE CycleFrom(a, FirstAlias(a, n), acc \cup {n})

\* The aliases followed from q lead back to a name followed before, and each
\* name on that cycle owns one record only, its alias.
AliasCycle(a, q) ==
    LET w == AliasWalk(a, q, {}) IN
        /\ w.loop
        /\ \A n \in CycleFrom(a, w.at, {}) : Cardinality(OwnedBy(a, n)) = 1

\* A pass went through every record, matched none and followed no alias.
IdlePass == pc = "ra_pass_end" /\ idx > Len(resp.ans) /\ addrs = <<>>

\* C4: when the aliases followed from the query name run into a cycle whose
\* names own nothing but their alias, the chase makes no idle pass, scans
\* for no name whose alias it followed already, and the call returns
\* NotFound without addresses, whatever other records there are.
AliasCycleIsNotFound ==
    (NoErrorResponse /\ pc # "ra_classify" /\ AliasCycle(resp.ans, dns_name)) =>
        /\ ~IdlePass
        /\ pc = "ra_for" => looking_for \notin cnames
        /\ pc = "done" => ret = None(NSS_STATUS_NOTFOUND)

\* C4's case: the call returned on a cycle of two names or more, with an
\* address record of a name outside the cycle placed before the aliases.
AliasCycleReturned ==
    /\ pc = "done"
    /\ NoErrorResponse
    /\ AliasCycle(resp.ans, dns_name)
    /\ Cardinality(cnames) >= 2
    /\ resp.ans[1].rr_type = "A"

\* The status the response code alone decides.
StatusOfCode(rcode) ==
    IF rcode = "NXDomain" THEN NSS_STATUS_NOTFOUND
    ELSE IF rcode = "ServFail" THEN NSS_STATUS_TRYAGAIN
    ELSE NSS_STATUS_UNAVAIL

\* C5: with a response code other than no-error no answer record is ever
\* read and the call returns the status of the code, without addresses:
\* NXDomain NotFound, ServFail TryAgain, any other Unavailable; records are
\* read only under no-error.
ClassifiedBeforeInspection ==
    /\ (resp.kind = "msg" /\ resp.rcode # "NoError") =>
          /\ inspected = {}
          /\ pc \in {"ra_classify", "done"}
          /\ pc = "done" => ret = None(StatusOfCode(resp.rcode))
    /\ inspected # {} => NoErrorResponse /\ pc # "ra_classify"

\* C5's case: a name-does-not-exist response whose answer section holds an
\* address record of the query name was returned.
NxDomainWithAddressReturned ==
    /\ pc = "done"
    /\ resp.kind = "msg"
    /\ resp.rcode = "NXDomain"
    /\ AddressesOf(resp.ans, dns_name) # {}

\* The end of the alias chain from n: each name before it owns one alias and
\* no address, it owns addresses and no alias, and no name comes twice.
RECURSIVE ChainEnd(_, _, _)
ChainEnd(a, n, seen) ==
    IF n \in seen
    THEN [ok |-> FALSE, end |-> n, hops |-> 0]
    ELSE IF Cardinality(AliasesOf(a, n)) = 1 /\ AddressesOf(a, n) = {}
         THEN LET e == ChainEnd(a, FirstAlias(a, n), seen \cup {n})
              IN  [ok |-> e.ok, end |-> e.end, hops |-> e.hops + 1]
         ELSE [ok |-> AliasesOf(a, n) = {} /\ AddressesOf(a, n) # {},
               end |-> n, hops |-> 0]

\* C6: on an acyclic alias chain from the query name to a name with address
\* records, the chase makes no idle pass and the call returns Success with
\* exactly the addresses of the chain's last name, in answer order.
ChainResolves ==
    LET e == ChainEnd(resp.ans, dns_name, {}) IN
        (NoErrorResponse /\ pc # "ra_classify" /\ e.ok) =>
            /\ ~IdlePass
            /\ pc = "done" =>
                 ret = Some(AddressList(resp.ans, e.end), NSS_STATUS_SUCCESS)

\* C6's case: a chain of one alias or more ending at a name with two address
\* records, the first of them placed before the alias, was returned.
ChainReturned ==
    LET e == ChainEnd(resp.ans, dns_name, {}) IN
        /\ pc = "done"
        /\ NoErrorResponse
        /\ e.ok
        /\ e.hops >= 1
        /\ Len(ret.addrs) = 2
        /\ ret.addrs[1] # ret.addrs[2]
        /\ resp.ans[1].rr_type = "A"

\* The alias chain from n ends at a name that owns no record, each name
\* before it owning one record only, its alias, and no name coming twice.
RECURSIVE DeadEnd(_, _, _)
DeadEnd(a, n, seen) ==
    IF n \in seen THEN FALSE
    ELSE IF OwnedBy(a, n) = {} THEN TRUE
    ELSE IF Cardinality(OwnedBy(a, n)) = 1 /\ AliasesOf(a, n) # {}
         THEN DeadEnd(a, FirstAlias(a, n), seen \cup {n})
         ELSE FALSE

\* C7: a no-error response without any address for the query name and
\* without conflict or loop (no record, none of the query name, or a chain
\* to a name without records) is reported to the caller as NotFound.
NoDataIsNotFound ==
    []((pc = "ra_for" /\ DeadEnd(resp.ans, dns_name, {}))
          => <>(pc = "done" /\ ret = None(NSS_STATUS_NOTFOUND)))

\* C8: a call makes at most one query, and exactly one once a well-formed
\* name is past the query; a transport failure or a response without a
\* message ends the call with Unavailable, with no second query.
AtMostOneQuery ==
    /\ queries <= 1
    /\ (~Malformed(name) /\ pc \notin {"ra_start", "ra_resolve"}) => queries = 1
    /\ resp.kind \in {"err", "nomsg"} =>
          pc = "done" /\ ret = None(NSS_STATUS_UNAVAIL)

\* C8's case: the query failed in the transport and the call returned.
TransportFailureReturned ==
    pc = "done" /\ resp.kind = "err" /\ queries = 1

\* C9: a host name that does not parse ends the call with Unavailable before
\* any query: none was made, no response is in hand, no address is returned.
InvalidNameUnavailable ==
    (Malformed(name) /\ pc # "ra_start") =>
        /\ pc = "done"
        /\ ret = None(NSS_STATUS_UNAVAIL)
        /\ queries = 0
        /\ resp = NoResponse

\* C9's case: the call on a malformed name returned.
InvalidNameReturned == pc = "done" /\ Malformed(name)

\* The caller asked for AF_INET6, through the af parameter or the first tuple.
Ipv6Request ==
    \/ entry = "gethostbyname2_r" /\ af = AF_INET6
    \/ entry = "gethostbyname4_r" /\ pat.family = AF_INET6

\* C10: an AF_INET6 request returns NOTFOUND at once: the name is not
\* parsed, no query is made, and errnop, h_errnop, result_buf, *pat and buf
\* are as the caller left them; _nss_doh_gethostbyname_r passes AF_INET and
\* always goes on to retrieve_addrs.
Ipv6RejectedOutright ==
    /\ (Ipv6Request /\ pc # "nss_entry") =>
          /\ pc = "done"
          /\ nss_status = NSS_STATUS_NOTFOUND
          /\ dns_name = RootName
          /\ queries = 0
          /\ resp = NoResponse
          /\ errno = ERANGE
          /\ h_errno = TRY_AGAIN
          /\ result_buf = CallerHostent
          /\ pat = CallerTuple(IF entry = "gethostbyname4_r" THEN AF_INET6 ELSE AF_INET)
          /\ buf = <<>>
    /\ (entry = "gethostbyname_r" /\ pc # "nss_entry") =>
          /\ af = AF_INET
          /\ pc = "done" =>
               \/ queries = 1
               \/ Malformed(name) /\ nss_status = NSS_STATUS_UNAVAIL

\* C10's case: _nss_doh_gethostbyname2_r returned on an AF_INET6 request.
Ipv6RequestReturned ==
    pc = "done" /\ entry = "gethostbyname2_r" /\ af = AF_INET6

\* C11: for every host name text that parses, the normalised name is the
\* parsed labels made fully qualified: it is the parsed name itself when
\* that was fully qualified already, normalising it once more changes
\* nothing, and it is the name queried and the first target of the chase.
NormalizationIdempotent ==
    LET p == FromStr(name) IN
        (p.ok /\ pc # "ra_start") =>
            /\ dns_name = MkName(p.name.labels, TRUE)
            /\ p.name.fqdn => dns_name = p.name
            /\ (pc = "ra_for" /\ cnames = {}) => looking_for = dns_name

\* C11's case: a relative name of two labels was normalised twice.
RelativeNameNormalizedTwice ==
    /\ pc = "normalized_again"
    /\ ~FromStr(name).name.fqdn
    /\ Len(dns_name.labels) = 2

\* C12: when an entry point returns another status than SUCCESS, the
\* caller's hostent and first tuple are as the caller passed them and no
\* byte of buf was written.
FailureLeavesResultUntouched ==
    (pc = "done" /\ entry # "retrieve_addrs" /\ nss_status # NSS_STATUS_SUCCESS) =>
        /\ buf = <<>>
        /\ result_buf = CallerHostent
        /\ pat = CallerTuple(pat.family)
        /\ pat.family = AF_INET6 => entry = "gethostbyname4_r" /\ queries = 0

\* C12's case: _nss_doh_gethostbyname4_r got addresses and returned TRYAGAIN
\* for a buffer that is too small.
BufferTooSmallReturned ==
    /\ pc = "done"
    /\ entry = "gethostbyname4_r"
    /\ ret.some
    /\ nss_status = NSS_STATUS_TRYAGAIN
    /\ errno = ERANGE

\* What a call in state c returns when it runs alone.
Alone(c) == RetrieveAddrs(c.name, c.resp)

\* A call in state c is in the chase with the target, the addresses and the
\* names followed that the scan of its own answer section gives it.
OwnChase(c) ==
    c.pc \in {"ra_for", "ra_pass_end", "ra_end"} =>
        /\ c.looking_for \in {c.dns_name} \cup { r.cname : r \in Range(c.resp.ans) }
        /\ c.cnames \subseteq {c.dns_name} \cup { r.name : r \in Range(c.resp.ans) }
        /\ \A k \in 1..Len(c.addrs) : c.addrs[k] \in { r.addr : r \in Range(c.resp.ans) }

\* C13: of two calls whose steps interleave, each keeps a chase state drawn
\* from its own name and response, and each returns the status and the
\* addresses it returns when run alone on that name and response, and only
\* if it returns then.
CallsDoNotInteract ==
    \A c \in {Mine, other} :
        /\ OwnChase(c)
        /\ c.pc = "done" => ~Alone(c).spins /\ c.ret = Alone(c).ret

\* C13's case: both calls are in the middle of their chase, one has followed
\* an alias and the other holds an address of another answer section.
BothCallsInChase ==
    /\ pc = "ra_for"
    /\ other.pc = "ra_for"
    /\ cnames # {}
    /\ other.addrs # <<>>
    /\ resp # other.resp

\* The len bytes of b from offset off on, when all of them were written.
Written(b, off, len) == \A o \in off..(off + len - 1) : o \in DOMAIN b

Bytes(b, off, len) == [k \in 1..len |-> b[off + k - 1]]

Holds(b, off, bytes) ==
    /\ Written(b, off, Len(bytes))
    /\ Bytes(b, off, Len(bytes)) = bytes

\* The pointer stored in b at offset off.
ReadPtr(b, off) == IF b[off].tag = "null" THEN NullPtr ELSE Ptr(b[off].n)

\* C14: when _nss_doh_gethostbyname2_r (or _nss_doh_gethostbyname_r through
\* it) returns SUCCESS with n addresses, buf holds n pointer slots, a NULL
\* slot, the n addresses of 4 bytes each in the order of the chase and the
\* NUL-terminated name, and nothing else; h_addr_list points at slot 0, slot
\* i at address i, h_aliases at the NULL slot and h_name at the copy of the
\* name right after the last address.
HostentLayout ==
    (/\ pc = "done"
     /\ entry \in {"gethostbyname_r", "gethostbyname2_r"}
     /\ nss_status = NSS_STATUS_SUCCESS) =>
        LET n == Len(ret.addrs)
            slot(i) == result_buf.h_addr_list.off + i * ptr_size
            after == (n + 1) * ptr_size + 4 * n
        IN  /\ ret.some
            /\ n >= 1
            /\ result_buf.h_addr_list = Ptr(0)
            /\ \A i \in 0..(n - 1) :
                 /\ Holds(buf, slot(i), PtrBytes(ReadPtr(buf, slot(i))))
                 /\ ReadPtr(buf, slot(i)) = Ptr((n + 1) * ptr_size + 4 * i)
                 /\ Holds(buf, ReadPtr(buf, slot(i)).off, OctetBytes(ret.addrs[i + 1]))
            /\ Holds(buf, slot(n), PtrBytes(NullPtr))
            /\ result_buf.h_aliases = Ptr(slot(n))
            /\ result_buf.h_name = Ptr(after)
            /\ Holds(buf, after, CStrBytes(name))
            /\ DOMAIN buf = 0..(after + Len(name))

\* C14's case: _nss_doh_gethostbyname2_r has packed two different addresses.
TwoAddressesPacked ==
    /\ pc = "done"
    /\ entry = "gethostbyname2_r"
    /\ nss_status = NSS_STATUS_SUCCESS
    /\ Len(ret.addrs) = 2
    /\ ret.addrs[1] # ret.addrs[2]

\* The gaih_addrtuple stored in b at offset off.
ReadTuple(b, off) ==
    [next |-> ReadPtr(b, off),
     name |-> ReadPtr(b, off + ptr_size),
     family |-> b[off + 2 * ptr_size].n,
     addr |-> [k \in 1..4 |-> b[off + 2 * ptr_size + 4 * k].n],
     scopeid |-> b[off + 2 * ptr_size + 20].n]

\* What a next pointer gives that points at no tuple of buf.
WildTuple ==
    [next |-> NullPtr, name |-> NullPtr, family |-> 0, addr |-> Zeros,
     scopeid |-> 0 - 1]

\* The tuples met from tuple t on by following next, at most fuel of them.
RECURSIVE TupleList(_, _)
TupleList(t, fuel) ==
    IF fuel = 0
    THEN <<>>
    ELSE IF t.next = NullPtr
         THEN <<t>>
         ELSE IF /\ Written(buf, t.next.off, gaih_size)
                 /\ Holds(buf, t.next.off, TupleBytes(ReadTuple(buf, t.next.off)))
              THEN <<t>> \o TupleList(ReadTuple(buf, t.next.off), fuel - 1)
              ELSE <<t, WildTuple>>

\* C15: when _nss_doh_gethostbyname4_r returns SUCCESS with n addresses, the
\* next pointers from *pat lead through exactly n tuples and then to NULL;
\* the name of *pat points at the copy of the name that follows the n-1
\* tuples of buf, the name of every later tuple is NULL, every tuple has
\* family AF_INET and scopeid 0, and next is NULL on the last tuple only.
TupleChain ==
    (/\ pc = "done"
     /\ entry = "gethostbyname4_r"
     /\ nss_status = NSS_STATUS_SUCCESS) =>
        LET n == Len(ret.addrs)
            chain == TupleList(pat, n + 1)
            after == (n - 1) * gaih_size
        IN  /\ ret.some
            /\ n >= 1
            /\ Len(chain) = n
            /\ chain[1] = pat
            /\ pat.name = Ptr(after)
            /\ Holds(buf, after, CStrBytes(name))
            /\ \A k \in 1..n :
                 /\ chain[k].family = AF_INET
                 /\ chain[k].scopeid = 0
                 /\ chain[k].next = NullPtr <=> k = n
                 /\ k > 1 => /\ chain[k].name = NullPtr
                             /\ chain[k - 1].next.off + gaih_size <= after
            /\ \A j, k \in 1..(n - 1) : chain[j].next = chain[k].next => j = k
            /\ n = 1 => pat.next = NullPtr
            /\ DOMAIN buf = 0..(after + Len(name))

\* C15's case: _nss_doh_gethostbyname4_r has packed three addresses, two of
\* them in tuples of buf.
ThreeTuplesPacked ==
    /\ pc = "done"
    /\ entry = "gethostbyname4_r"
    /\ nss_status = NSS_STATUS_SUCCESS
    /\ Len(ret.addrs) = 3
    /\ pat.next # NullPtr

\* One of the two packing entry points has returned.
Packer2Done == pc = "done" /\ entry \in {"gethostbyname_r", "gethostbyname2_r"}

Packer4Done == pc = "done" /\ entry = "gethostbyname4_r"

\* The bytes the packers need for n addresses and the name of the call.
Needed2(n) == n * ptr_size + ptr_size + n * 4 + Len(name) + 1

Needed4(n) == (n - 1) * gaih_size + Len(name) + 1

\* C16: a packing entry point that got addresses has got at least one, so
\* that addrs.len() - 1 is not negative; it returns TRYAGAIN with errno
\* ERANGE and h_errno TRY_AGAIN, and has written nothing into buf, when the
\* size it needs exceeds buflen; otherwise every offset it has written is
\* below that size, which is at most buflen.
WritesWithinBuffer ==
    /\ (pc \in {"nss_ret", "done"} /\ ret.some) => Len(ret.addrs) - 1 >= 0
    /\ ((Packer2Done \/ Packer4Done) /\ ret.some) =>
         LET n == Len(ret.addrs)
             size == IF Packer2Done THEN Needed2(n) ELSE Needed4(n)
         IN  IF size > buflen
             THEN /\ nss_status = NSS_STATUS_TRYAGAIN
                  /\ errno = ERANGE
                  /\ h_errno = TRY_AGAIN
                  /\ buf = <<>>
             ELSE /\ nss_status = NSS_STATUS_SUCCESS
                  /\ \A o \in DOMAIN buf : 0 <= o /\ o < size
                  /\ size <= buflen

\* C16's case: a packer has filled the buffer to its last byte.
BufferFilledExactly ==
    /\ Packer2Done
    /\ nss_status = NSS_STATUS_SUCCESS
    /\ buflen - 1 \in DOMAIN buf

\* The names whose first alias is followed, in turn, on the way from n to
\* target in answer section a, and whether that way leads to target without
\* passing a name twice.
RECURSIVE AliasPath(_, _, _, _)
AliasPath(a, n, target, path) ==
    IF n \in Range(path)
    THEN [ok |-> FALSE, names |-> path]
    ELSE IF n = target
         THEN [ok |-> TRUE, names |-> path]
         ELSE IF AliasesOf(a, n) = {}
              THEN [ok |-> FALSE, names |-> path]
              ELSE AliasPath(a, FirstAlias(a, n), target, Append(path, n))

\* The names that own an alias record in a.
AliasOwners(a) == { a[i].name : i \in { j \in 1..Len(a) : a[j].rr_type = "CNAME" } }

\* A pass of the chase begins.
PassStart == pc = "ra_for" /\ idx = 1

\* C17: when a pass of the chase begins, the target is not among the visited
\* names, the visited names are exactly those whose alias was followed on
\* the way from the query name to the target, one transition each, and no
\* address is held; at every point of the chase the visited names are
\* owners of alias records, so that the transitions are no more than the
\* distinct alias owners of the answer section.
PassStartsClean ==
    /\ PassStart =>
         LET path == AliasPath(resp.ans, dns_name, looking_for, <<>>) IN
             /\ looking_for \notin cnames
             /\ addrs = <<>>
             /\ path.ok
             /\ cnames = Range(path.names)
             /\ Cardinality(cnames) = Len(path.names)
    /\ pc \in {"ra_for", "ra_pass_end", "ra_end", "done"} =>
         /\ cnames \subseteq AliasOwners(resp.ans)
         /\ Cardinality(cnames) <= Cardinality(AliasOwners(resp.ans))

\* C17's case: a pass begins after two alias transitions.
ThirdPassStarts ==
    /\ PassStart
    /\ Cardinality(cnames) = 2
    /\ Cardinality(AliasOwners(resp.ans)) = 2

\* The status returned and what *errnop and *h_errnop hold.
Returned(status, e, h) == nss_status = status /\ errno = e /\ h_errno = h

\* C18: an entry point that went on to retrieve_addrs returns UNAVAIL with
\* errno ENOENT and h_errno NETDB_INTERNAL on a name that does not parse, a
\* transport failure or a response without message; NOTFOUND, 0 and
\* HOST_NOT_FOUND on NXDomain; TRYAGAIN, 0 and TRY_AGAIN on ServFail; UNAVAIL,
\* 0 and NO_RECOVERY on any other code but NoError; NOTFOUND, 0 and NO_DATA
\* on a chase without addresses; and SUCCESS with errno 0 and h_errno
\* NETDB_SUCCESS. The one other return after retrieve_addrs is that of
\* addresses that do not fit buf.
StatusCodesPaired ==
    (pc = "done" /\ entry # "retrieve_addrs" /\ ~Ipv6Request) =>
        /\ ~FromStr(name).ok =>
             Returned(NSS_STATUS_UNAVAIL, ENOENT, NETDB_INTERNAL)
        /\ (FromStr(name).ok /\ resp.kind # "msg") =>
             /\ queries = 1
             /\ Returned(NSS_STATUS_UNAVAIL, ENOENT, NETDB_INTERNAL)
        /\ (FromStr(name).ok /\ resp.kind = "msg") =>
             CASE resp.rcode = "NXDomain" ->
                    Returned(NSS_STATUS_NOTFOUND, 0, HOST_NOT_FOUND)
               [] resp.rcode = "ServFail" ->
                    Returned(NSS_STATUS_TRYAGAIN, 0, TRY_AGAIN)
               [] resp.rcode = "NoError" ->
                    \/ ~ret.some /\ Returned(NSS_STATUS_NOTFOUND, 0, NO_DATA)
                    \/ ret.some /\ Returned(NSS_STATUS_SUCCESS, 0, NETDB_SUCCESS)
                    \/ ret.some /\ buf = <<>>
                         /\ Returned(NSS_STATUS_TRYAGAIN, ERANGE, TRY_AGAIN)
               [] OTHER ->
                    Returned(NSS_STATUS_UNAVAIL, 0, NO_RECOVERY)
        /\ nss_status = NSS_STATUS_SUCCESS <=> (errno = 0 /\ h_errno = NETDB_SUCCESS)

\* C18's case: an entry point returned on a ServFail response that carries
\* an address of the name asked for.
ServFailReturned ==
    /\ pc = "done"
    /\ entry = "gethostbyname_r"
    /\ resp.kind = "msg"
    /\ resp.rcode = "ServFail"
    /\ \E i \in 1..Len(resp.ans) :
         resp.ans[i].name = dns_name /\ resp.ans[i].rr_type = "A"

\* The answer section a with its records in the order p gives.
Permuted(a, p) == [i \in 1..Len(a) |-> a[p[i]]]

\* What the call returns on the response in hand with its answer section
\* in the order p.
OnPermuted(p) == RetrieveAddrs(name, [resp EXCEPT !.ans = Permuted(resp.ans, p)])

\* No name of a owns two alias records, or an alias and an address record.
WellFormedAnswer(a) ==
    \A i \in 1..Len(a) :
        a[i].rr_type = "CNAME" =>
            /\ Cardinality(AliasesOf(a, a[i].name)) = 1
            /\ AddressesOf(a, a[i].name) = {}

\* C19: when the call has returned on a no-error response, it returns the
\* same status and the same set of addresses on every other order of the
\* answer records on which the chase ends.
AnswerOrderIrrelevant ==
    (pc = "done" /\ NoErrorResponse) =>
        \A p \in Permutations(1..Len(resp.ans)) :
            ~OnPermuted(p).spins =>
                /\ OnPermuted(p).ret.status = ret.status
                /\ Range(OnPermuted(p).ret.addrs) = Range(ret.addrs)

\* The same on the answer sections in which no name owns two aliases or an
\* alias and an address.
WellFormedOrderIrrelevant ==
    (pc = "done" /\ NoErrorResponse /\ WellFormedAnswer(resp.ans)) =>
        \A p \in Permutations(1..Len(resp.ans)) :
            ~OnPermuted(p).spins =>
                /\ OnPermuted(p).ret.status = ret.status
                /\ Range(OnPermuted(p).ret.addrs) = Range(ret.addrs)

====
